---- MODULE Spec2Model ----
(***************************************************************************)
(* The SQL agent of src/llm.py (a LangGraph StateGraph over MessagesState) *)
(* driven by the chat handler of src/app.py.                               *)
(*                                                                         *)
(* The language model and the database are opaque: every model call picks  *)
(* its response (or its failure) from a small set, every SQL execution     *)
(* picks rows or an error string.  The graph runtime is modelled by what   *)
(* the code asks of it: MessagesState merges a node's returned messages    *)
(* into the state by message id (add_messages), ToolNode answers every     *)
(* tool call of the last message, stream(..., stream_mode="values") yields *)
(* the input state and then the state after every node, and a stream       *)
(* called without a config runs under the runtime's default recursion      *)
(* limit.                                                                  *)
(***************************************************************************)
EXTENDS Naturals, Sequences, FiniteSets, TLC

VARIABLES
    session_messages,   \* st.session_state.messages: the chat history
    asked,              \* number of questions submitted so far
    pc,                 \* "idle", the next graph node, "END" or "error"
    messages,           \* state["messages"] of the running invocation
    trace,              \* nodes started by the invocation, with what each returned
    executed,           \* SQL statements the invocation ran against the database
    error,              \* the exception raised inside stream, "" when none
    app_messages,       \* the handler's local list `messages` (last message per snapshot)
    steps,              \* the handler's local list `steps`
    db_path,            \* st.session_state.db_path
    agent,              \* st.session_state.agent
    uploaded,           \* the file held by st.file_uploader, None when empty
    cache,              \* st.cache_resource of get_agent: {[path, agent]}
    builds,             \* the runs of build_agent_for_db_path, in order
    tmpfiles            \* temporary files created by setup_database so far

vars == <<session_messages, asked, pc, messages, trace, executed, error,
          app_messages, steps, db_path, agent, uploaded, cache, builds, tmpfiles>>

\* what only a script run of app.py changes
setup_vars == <<db_path, agent, uploaded, cache, builds, tmpfiles>>

(* ------------------------------ bounds -------------------------------- *)

\* query cycles (generate_query -> check_query -> run_query) explored per invocation
MaxCycles == 1
\* tool calls a single model response may carry
MaxToolCalls == 2
\* questions submitted in one session
MaxQuestions == 2
\* temporary files setup_database may create
MaxTempFiles == 3
\* runs of build_agent_for_db_path
MaxBuilds == 3

(* ----------------------------- constants ------------------------------ *)

\* agent.stream is called without a config: the runtime's default recursion limit
RecursionLimit == 25

None == <<"None">>
Last(s) == s[Len(s)]

Prompts == {"How many albums are there?"}
Answers == {"", "There are 347 albums."}
TableNames == "Album, Track"
SchemaText == "CREATE TABLE Album (...)"
RowsText == "[(347,)]"
SqlErrorText == "Error: (sqlite3.OperationalError) no such table"
ValidationErrorText == "Error: query field required"

(* ------------------------------ messages ------------------------------ *)

HumanMessage(id, content) ==
    [type |-> "HumanMessage", id |-> id, content |-> content]

AIMessage(id, content, tool_calls) ==
    [type |-> "AIMessage", id |-> id, content |-> content, tool_calls |-> tool_calls]

ToolMessage(id, content, name, tool_call_id) ==
    [type |-> "ToolMessage", id |-> id, content |-> content, name |-> name,
     tool_call_id |-> tool_call_id]

\* a tool call's args: a set of <<key, value>> pairs
HasKey(args, k) == \E kv \in args : kv[1] = k
Get(args, k) == (CHOOSE kv \in args : kv[1] = k)[2]

\* getattr(message, "tool_calls", None): only an AIMessage has the attribute
tool_calls_of(m) == IF "tool_calls" \in DOMAIN m THEN m.tool_calls ELSE <<>>

\* identifiers are fresh per graph step (uuid4, the provider's run and call ids)
IdStride == MaxToolCalls + 3
FreshBase == (Len(trace) + 1) * IdStride

RECURSIVE assign_ids(_, _)
\* add_messages gives every message that has no id a fresh uuid
assign_ids(msgs, n) ==
    IF msgs = <<>> THEN <<>>
    ELSE <<IF Head(msgs).id = None
           THEN [Head(msgs) EXCEPT !.id = <<"uuid", n>>]
           ELSE Head(msgs)>> \o assign_ids(Tail(msgs), n + 1)

\* a reducer that never replaces: plain concatenation
merge_append(left, right) == left \o right

RECURSIVE merge_by_id(_, _)
\* add_messages: a message whose id is already in the state replaces the
\* message holding that id, in place; any other message is appended
merge_by_id(left, right) ==
    IF right = <<>> THEN left
    ELSE LET m == Head(right)
             at == {i \in 1..Len(left) : left[i].id = m.id}
         IN  IF at # {}
             THEN merge_by_id([left EXCEPT ![CHOOSE i \in at : TRUE] = m], Tail(right))
             ELSE merge_by_id(Append(left, m), Tail(right))

\* the reducer of MessagesState
add_messages(left, right) == merge_by_id(left, assign_ids(right, FreshBase))

(* ---------------------------- model client ---------------------------- *)

SchemaArgs == {{<<"table_names", TableNames>>}}
SelectQuery == "SELECT COUNT(*) FROM Album LIMIT 5"
DmlQuery == "DROP TABLE Album"
Queries == {SelectQuery, DmlQuery}
\* what a model may put in the args of a sql_db_query call: a query, or no query key
QueryArgs == {{<<"query", q>>} : q \in Queries} \cup {{}}
\* the lean repertoire: one well-formed read-only query
LeanArgs == {{<<"query", SelectQuery>>}}

\* k parallel calls of one tool with the same args, ids fresh
MkCalls(name, args, k, base) ==
    [i \in 1..k |-> [name |-> name, args |-> args, id |-> <<"call", base + i>>,
                     type |-> "tool_call"]]

\* llm.bind_tools([tool], tool_choice=...).invoke(...): the responses the model
\* may give.  tool_choice="any" obliges the model to call a tool (one or more
\* calls); without it the model may also answer in plain content.
llm_invoke(tool, tool_choice, argset, maxCalls, base) ==
    {AIMessage(<<"run", base>>, "", MkCalls(tool, a, k, base)) :
        a \in argset, k \in 1..maxCalls}
    \cup (IF tool_choice = "any" THEN {}
          ELSE {AIMessage(<<"run", base>>, c, <<>>) : c \in Answers})

(* ------------------------------- tools -------------------------------- *)

DbResults == {RowsText, SqlErrorText}

\* a query tool that swallows the database's error text
sql_db_query_drops_error(args, db) ==
    IF HasKey(args, "query") /\ db[Get(args, "query")] = RowsText THEN RowsText ELSE ""

\* QuerySQLDatabaseTool: db.run_no_throw(query) returns the rows as text or the
\* error as text; a call without a query fails the tool's argument validation,
\* which ToolNode turns into an error message as well
sql_db_query(args, db) ==
    IF HasKey(args, "query") THEN db[Get(args, "query")] ELSE ValidationErrorText

\* ToolNode([tool]): one ToolMessage per tool call of the last message, in order;
\* tool maps a call's args to the text the tool answers
ToolNode(state, tool) ==
    LET calls == tool_calls_of(Last(state))
    IN  [i \in 1..Len(calls) |->
            ToolMessage(None, tool[calls[i].args], calls[i].name, calls[i].id)]

(* ------------------------------- nodes -------------------------------- *)

ListTablesCallId == <<"list_tables">>
\* f"Available tables: {tool_message.content}"
AvailableTables(content) ==
    IF content = TableNames THEN "Available tables: Album, Track"
    ELSE "Available tables: "

list_tables(state) ==
    LET tool_call == [name |-> "sql_db_list_tables", args |-> {},
                      id |-> ListTablesCallId, type |-> "tool_call"]
        tool_call_message == AIMessage(None, "", <<tool_call>>)
        tool_message == ToolMessage(None, TableNames, tool_call.name, tool_call.id)
        response == AIMessage(None, AvailableTables(tool_message.content), <<>>)
    IN  <<tool_call_message, tool_message, response>>

call_get_schema(state, response) == <<response>>

get_schema_node(state) == ToolNode(state, [args \in SchemaArgs |-> SchemaText])

generate_query(state, response) == <<response>>

\* a check_query that binds the tool without forcing its use
check_query_tool_choice_auto == "auto"

\* llm.bind_tools([run_query_tool], tool_choice="any")
check_query_tool_choice == "any"

\* check_query reads state["messages"][-1].tool_calls[0]["args"]["query"]
check_query_reads(state) ==
    /\ tool_calls_of(Last(state)) # <<>>
    /\ HasKey(tool_calls_of(Last(state))[1].args, "query")

\* a check_query that leaves the response's own id in place
check_query_own_id(state, response) == <<response>>

\* response.id = state["messages"][-1].id
check_query(state, response) == <<[response EXCEPT !.id = Last(state).id]>>

\* a run_query that answers only the first tool call
run_query_node_first(state, db) ==
    SubSeq(ToolNode(state, [args \in QueryArgs |-> sql_db_query(args, db)]), 1, 1)

run_query_node(state, db) ==
    ToolNode(state, [args \in QueryArgs |-> sql_db_query(args, db)])

\* a branch that looks at the content instead of the tool calls
should_continue_on_content(state) ==
    IF Last(state).content = "" THEN "check_query" ELSE "END"

\* a branch that sends a proposed query straight to execution
should_continue_skips_check(state) ==
    IF tool_calls_of(Last(state)) # <<>> THEN "run_query" ELSE "END"

should_continue(state) ==
    IF tool_calls_of(Last(state)) # <<>> THEN "check_query" ELSE "END"

\* the edges with run_query leading back to the start of the graph
edge_restarts(source) ==
    CASE source = "START" -> "list_tables"
      [] source = "list_tables" -> "call_get_schema"
      [] source = "call_get_schema" -> "get_schema"
      [] source = "get_schema" -> "generate_query"
      [] source = "check_query" -> "run_query"
      [] source = "run_query" -> "list_tables"

\* builder.add_edge(source, target)
edge(source) ==
    CASE source = "START" -> "list_tables"
      [] source = "list_tables" -> "call_get_schema"
      [] source = "call_get_schema" -> "get_schema"
      [] source = "get_schema" -> "generate_query"
      [] source = "check_query" -> "run_query"
      [] source = "run_query" -> "generate_query"

Nodes == {"list_tables", "call_get_schema", "get_schema", "generate_query",
          "check_query", "run_query"}

(* ------------------------ the runtime's stream ------------------------ *)

Count(node) == Cardinality({i \in 1..Len(trace) : trace[i].node = node})

\* a runtime without a recursion limit
within_limit_unbounded == TRUE

\* a superstep runs only while the step number is within the recursion limit
within_limit == Len(trace) < RecursionLimit

\* a runtime that runs a failed node again
on_node_error_retry(node) == node

\* no node of llm.py catches an exception and the graph declares no retry
\* policy: a failure inside a node leaves the stream as an exception
on_node_error(node) == "error"

parse_step_info(message, step_count) ==
    IF tool_calls_of(message) # <<>>
    THEN [step |-> step_count,
          tool_call |-> [name |-> tool_calls_of(message)[1].name,
                         args |-> tool_calls_of(message)[1].args]]
    ELSE IF message.content # ""
    THEN [step |-> step_count, content |-> message.content]
    ELSE [step |-> step_count, type |-> message.type]

\* a loop body that numbers the record before counting the snapshot
Yield_stale_count(state) ==
    /\ app_messages' = Append(app_messages, Last(state))
    /\ steps' = Append(steps, parse_step_info(Last(state), Len(steps)))

\* the body of the handler's for loop, run on every snapshot the stream yields
Yield(state) ==
    /\ app_messages' = Append(app_messages, Last(state))
    /\ steps' = Append(steps, parse_step_info(Last(state), Len(steps) + 1))

\* a node returned `returned`: the reducer merges it, the branch or edge picks
\* the next node, and stream yields the new state
Ran(node, returned, sql) ==
    LET state == add_messages(messages, returned)
    IN  /\ messages' = state
        /\ trace' = Append(trace, [node |-> node, raised |-> FALSE,
                                   returned |-> assign_ids(returned, FreshBase)])
        /\ pc' = IF node = "generate_query" THEN should_continue(state) ELSE edge(node)
        /\ executed' = executed \o sql
        /\ Yield(state)
        /\ UNCHANGED <<session_messages, asked, error>>
        /\ UNCHANGED setup_vars

\* a node raised e
Raised(node, e) ==
    /\ pc' = on_node_error(node)
    /\ error' = e
    /\ trace' = Append(trace, [node |-> node, raised |-> TRUE, returned |-> <<>>])
    /\ UNCHANGED <<session_messages, asked, messages, executed, app_messages, steps>>
    /\ UNCHANGED setup_vars

(* ------------------------------ actions ------------------------------- *)

\* app.py: a question is typed into st.chat_input; the handler records it and
\* starts agent.stream on a state holding only that question
\* the files a user may hand to st.file_uploader
Files == {<<"a.db">>, <<"b.db">>}

\* os.path.join(os.getcwd(), "Chinook.db")
default_path == <<"Chinook.db">>

\* the name tempfile.NamedTemporaryFile(delete=False) gives its n-th file:
\* a name no existing file has, and the files are never deleted
NamedTemporaryFile(n) == <<"tmp", n>>

\* the object the n-th run of build_agent_for_db_path returns
build_agent_for_db_path(path, n) == <<"agent", path, n>>

\* the session state and the process-wide resources one script run works on
SessionState ==
    [db_path |-> db_path, agent |-> agent, messages |-> session_messages,
     cache |-> cache, builds |-> builds, tmpfiles |-> tmpfiles]

\* get_agent with the cache_resource decorator removed
get_agent_uncached(s, ok) ==
    LET n == Len(s.builds) + 1
        ran == [s EXCEPT !.builds = Append(@, [path |-> s.db_path, ok |-> ok])]
    IN  IF ok THEN [ran EXCEPT !.agent = build_agent_for_db_path(s.db_path, n)]
        ELSE ran

\* get_agent(st.session_state.db_path) inside the try of setup_database: a hit
\* returns the cached object, a miss runs build_agent_for_db_path; what it
\* returns is cached, what it raises is not and leaves agent as it was
get_agent(s, ok) ==
    IF \E c \in s.cache : c.path = s.db_path
    THEN [s EXCEPT !.agent = (CHOOSE c \in s.cache : c.path = s.db_path).agent]
    ELSE LET n == Len(s.builds) + 1
             ran == [s EXCEPT !.builds = Append(@, [path |-> s.db_path, ok |-> ok])]
             built == build_agent_for_db_path(s.db_path, n)
         IN  IF ok
             THEN [ran EXCEPT !.agent = built,
                              !.cache = @ \cup {[path |-> s.db_path, agent |-> built]}]
             ELSE ran

\* setup_database(): up is the uploader's value, exists is
\* os.path.exists(default_path), ok is whether a build that runs succeeds
setup_database(s, up, exists, ok) ==
    LET tmp == NamedTemporaryFile(s.tmpfiles + 1)
        s1 == IF up # None
              THEN IF s.db_path # tmp
                   THEN [s EXCEPT !.tmpfiles = @ + 1, !.db_path = tmp,
                                  !.agent = None, !.messages = <<>>]
                   ELSE [s EXCEPT !.tmpfiles = @ + 1]
              ELSE s
        s2 == IF s1.db_path = None /\ exists
              THEN [s1 EXCEPT !.db_path = default_path]
              ELSE s1
    IN  IF s2.db_path # None /\ s2.agent = None THEN get_agent(s2, ok) ELSE s2

\* the script run stays within the bounds of the model
InBounds(s) == s.tmpfiles <= MaxTempFiles /\ Len(s.builds) <= MaxBuilds

\* the session state a script run leaves behind, but for the history
Store(s) ==
    /\ db_path' = s.db_path
    /\ agent' = s.agent
    /\ cache' = s.cache
    /\ builds' = s.builds
    /\ tmpfiles' = s.tmpfiles

\* a handler that streams the whole chat history followed by the question
stream_input_with_history(history, prompt) ==
    [k \in 1..Len(history) |->
        IF history[k].role = "user"
        THEN HumanMessage(None, history[k].content)
        ELSE AIMessage(None, history[k].content, <<>>)]
       \o <<HumanMessage(None, prompt)>>

\* the input of agent.stream: {"messages": [{"role": "user", "content": prompt}]}
stream_input(history, prompt) == <<HumanMessage(None, prompt)>>

\* a script run with a question in st.chat_input: setup_database, then the
\* handler of the question up to the first snapshot of agent.stream
Submit(prompt, maxQuestions) ==
    /\ pc = "idle"
    /\ agent # None
    /\ asked < maxQuestions
    /\ \E exists, ok \in BOOLEAN :
          LET s == setup_database(SessionState, uploaded, exists, ok)
              input == merge_by_id(<<>>, assign_ids(stream_input(s.messages, prompt), 0))
          IN  /\ InBounds(s)
              /\ Store(s)
              /\ uploaded' = uploaded
              /\ IF s.agent # None
                 THEN /\ asked' = asked + 1
                      /\ session_messages' =
                             Append(s.messages, [role |-> "user", content |-> prompt])
                      /\ messages' = input
                      /\ app_messages' = <<Last(input)>>
                      /\ steps' = <<parse_step_info(Last(input), 1)>>
                      /\ trace' = <<>>
                      /\ executed' = <<>>
                      /\ error' = ""
                      /\ pc' = edge("START")
                 ELSE /\ session_messages' = s.messages
                      /\ UNCHANGED <<asked, pc, messages, trace, executed, error,
                                     app_messages, steps>>

\* a script run started by the uploader: a file chosen, replaced or removed
Upload(up) ==
    /\ pc = "idle"
    /\ up # uploaded
    /\ \E exists, ok \in BOOLEAN :
          LET s == setup_database(SessionState, up, exists, ok)
          IN  /\ InBounds(s)
              /\ Store(s)
              /\ session_messages' = s.messages
    /\ uploaded' = up
    /\ UNCHANGED <<asked, pc, messages, trace, executed, error, app_messages, steps>>

\* the Clear Chat button: the run that sees the press empties the history and
\* calls st.rerun(), which runs the script, setup_database included, once more
ClearChat ==
    /\ pc = "idle"
    /\ \E exists, ok, ok2 \in BOOLEAN :
          LET s == setup_database(SessionState, uploaded, exists, ok)
              cleared == [s EXCEPT !.messages = <<>>]
              t == setup_database(cleared, uploaded, exists, ok2)
          IN  /\ InBounds(t)
              /\ Store(t)
              /\ session_messages' = t.messages
    /\ UNCHANGED <<uploaded, asked, pc, messages, trace, executed, error,
                   app_messages, steps>>

\* a new browser session: init_session_state fills an empty st.session_state,
\* the uploader is empty, the cache_resource of the process is kept, and the
\* script runs for the first time
NewSession ==
    /\ pc = "idle"
    /\ \E exists, ok \in BOOLEAN :
          LET fresh == [SessionState EXCEPT !.db_path = None, !.agent = None,
                                            !.messages = <<>>]
              s == setup_database(fresh, None, exists, ok)
          IN  /\ InBounds(s)
              /\ Store(s)
              /\ session_messages' = s.messages
    /\ uploaded' = None
    /\ UNCHANGED <<asked, pc, messages, trace, executed, error, app_messages, steps>>

ListTables ==
    /\ pc = "list_tables"
    /\ within_limit
    /\ Ran("list_tables", list_tables(messages), <<>>)

CallGetSchema(maxCalls) ==
    /\ pc = "call_get_schema"
    /\ within_limit
    /\ \/ \E response \in llm_invoke("sql_db_schema", "any", SchemaArgs, maxCalls, FreshBase) :
            Ran("call_get_schema", call_get_schema(messages, response), <<>>)
       \/ Raised("call_get_schema", "model")

GetSchema ==
    /\ pc = "get_schema"
    /\ within_limit
    /\ Ran("get_schema", get_schema_node(messages), <<>>)

\* cap bounds the query cycles the model is allowed to ask for
GenerateQuery(argset, maxCalls, cap) ==
    /\ pc = "generate_query"
    /\ within_limit
    /\ \/ \E response \in llm_invoke("sql_db_query", "auto", argset, maxCalls, FreshBase) :
            /\ response.tool_calls # <<>> => Count("run_query") < cap
            /\ Ran("generate_query", generate_query(messages, response), <<>>)
       \/ Raised("generate_query", "model")

CheckQuery(argset, maxCalls) ==
    /\ pc = "check_query"
    /\ within_limit
    /\ \/ /\ check_query_reads(messages)
          /\ \E response \in llm_invoke("sql_db_query", check_query_tool_choice, argset,
                                        maxCalls, FreshBase) :
                Ran("check_query", check_query(messages, response), <<>>)
       \/ /\ check_query_reads(messages)
          /\ Raised("check_query", "model")
       \/ /\ ~check_query_reads(messages)
          /\ Raised("check_query", "KeyError")

\* an adapter that lets only the read-only statement through
sql_run_select_only(state, db) ==
    LET calls == SelectSeq(tool_calls_of(Last(state)),
                           LAMBDA c : HasKey(c.args, "query")
                                      /\ Get(c.args, "query") = SelectQuery)
    IN  [i \in 1..Len(calls) |->
            [id |-> calls[i].id, query |-> Get(calls[i].args, "query"),
             result |-> db[Get(calls[i].args, "query")], step |-> Len(trace) + 1]]

\* the statements that reach the database: the calls that carry a query
sql_run(state, db) ==
    LET calls == SelectSeq(tool_calls_of(Last(state)), LAMBDA c : HasKey(c.args, "query"))
    IN  [i \in 1..Len(calls) |->
            [id |-> calls[i].id, query |-> Get(calls[i].args, "query"),
             result |-> db[Get(calls[i].args, "query")], step |-> Len(trace) + 1]]

RunQuery ==
    /\ pc = "run_query"
    /\ within_limit
    /\ \E db \in [Queries -> DbResults] :
          Ran("run_query", run_query_node(messages, db), sql_run(messages, db))

\* the superstep after the recursion limit: stream raises GraphRecursionError
RecursionError ==
    /\ pc \in Nodes \cup {"END"}
    /\ ~within_limit
    /\ pc' = "error"
    /\ error' = "GraphRecursionError"
    /\ UNCHANGED <<session_messages, asked, messages, trace, executed, app_messages, steps>>
    /\ UNCHANGED setup_vars

\* f"Sorry, I encountered an error: {str(e)}"
ErrorText(e) ==
    CASE e = "model" -> "Sorry, I encountered an error: model call failed"
      [] e = "KeyError" -> "Sorry, I encountered an error: 'query'"
      [] e = "GraphRecursionError" -> "Sorry, I encountered an error: Recursion limit reached"
      [] OTHER -> "Sorry, I encountered an error: "

\* a handler that records an assistant entry whatever the final content is
Finish_always_appends ==
    /\ pc = "END"
    /\ within_limit
    /\ pc' = "idle"
    /\ session_messages' =
          Append(session_messages,
                 [role |-> "assistant", content |-> Last(app_messages).content,
                  steps |-> steps])
    /\ UNCHANGED <<asked, messages, trace, executed, error, app_messages, steps>>
    /\ UNCHANGED setup_vars

\* app.py after the for loop: the last streamed message's content is the answer
Finish ==
    /\ pc = "END"
    /\ within_limit
    /\ pc' = "idle"
    /\ session_messages' =
          IF app_messages # <<>> /\ Last(app_messages).content # ""
          THEN Append(session_messages,
                      [role |-> "assistant", content |-> Last(app_messages).content,
                       steps |-> steps])
          ELSE session_messages
    /\ UNCHANGED <<asked, messages, trace, executed, error, app_messages, steps>>
    /\ UNCHANGED setup_vars

\* an except branch that starts the history over with the error entry
HandleError_resets ==
    /\ pc = "error"
    /\ pc' = "idle"
    /\ session_messages' = <<[role |-> "assistant", content |-> ErrorText(error),
                              steps |-> <<>>]>>
    /\ UNCHANGED <<asked, messages, trace, executed, error, app_messages, steps>>
    /\ UNCHANGED setup_vars

\* app.py except Exception: the failure becomes an inline assistant entry
HandleError ==
    /\ pc = "error"
    /\ pc' = "idle"
    /\ session_messages' = Append(session_messages,
                                  [role |-> "assistant", content |-> ErrorText(error),
                                   steps |-> <<>>])
    /\ UNCHANGED <<asked, messages, trace, executed, error, app_messages, steps>>
    /\ UNCHANGED setup_vars

(* --------------------------- specifications --------------------------- *)

\* init_session_state, with the agent for the bundled database loaded
Init ==
    /\ session_messages = <<>>
    /\ asked = 0
    /\ pc = "idle"
    /\ messages = <<>>
    /\ trace = <<>>
    /\ executed = <<>>
    /\ error = ""
    /\ app_messages = <<>>
    /\ steps = <<>>
    /\ db_path = default_path
    /\ agent = build_agent_for_db_path(default_path, 1)
    /\ uploaded = None
    /\ cache = {[path |-> default_path, agent |-> build_agent_for_db_path(default_path, 1)]}
    /\ builds = <<[path |-> default_path, ok |-> TRUE]>>
    /\ tmpfiles = 0

\* one question, the model free to answer with any well-formed or malformed call
Next ==
    \/ \E prompt \in Prompts : Submit(prompt, 1)
    \/ ListTables
    \/ CallGetSchema(MaxToolCalls)
    \/ GetSchema
    \/ GenerateQuery(QueryArgs, MaxToolCalls, MaxCycles)
    \/ CheckQuery(QueryArgs, MaxToolCalls)
    \/ RunQuery
    \/ Finish
    \/ HandleError

Spec == Init /\ [][Next]_vars

\* one question, the model free to ask for a query as long as the runtime lets it
NextLoop ==
    \/ \E prompt \in Prompts : Submit(prompt, 1)
    \/ ListTables
    \/ CallGetSchema(1)
    \/ GetSchema
    \/ GenerateQuery(LeanArgs, 1, RecursionLimit)
    \/ CheckQuery(LeanArgs, 1)
    \/ RunQuery
    \/ RecursionError
    \/ Finish
    \/ HandleError

SpecLoop == Init /\ [][NextLoop]_vars

\* a session of several questions
NextApp ==
    \/ \E prompt \in Prompts : Submit(prompt, MaxQuestions)
    \/ ListTables
    \/ CallGetSchema(1)
    \/ GetSchema
    \/ GenerateQuery(QueryArgs, 1, MaxCycles)
    \/ CheckQuery(LeanArgs, 1)
    \/ RunQuery
    \/ Finish
    \/ HandleError

SpecApp == Init /\ [][NextApp]_vars

\* a process just started: no session state, nothing cached, no script run yet
InitSession ==
    /\ session_messages = <<>>
    /\ asked = 0
    /\ pc = "idle"
    /\ messages = <<>>
    /\ trace = <<>>
    /\ executed = <<>>
    /\ error = ""
    /\ app_messages = <<>>
    /\ steps = <<>>
    /\ db_path = None
    /\ agent = None
    /\ uploaded = None
    /\ cache = {}
    /\ builds = <<>>
    /\ tmpfiles = 0

\* sessions of one process: uploads, Clear Chat, and questions the model
\* answers without asking for a query
NextSession ==
    \/ NewSession
    \/ \E up \in Files \cup {None} : Upload(up)
    \/ ClearChat
    \/ \E prompt \in Prompts : Submit(prompt, MaxQuestions)
    \/ ListTables
    \/ CallGetSchema(1)
    \/ GetSchema
    \/ GenerateQuery(LeanArgs, 1, 0)
    \/ Finish
    \/ HandleError

SpecSession == InitSession /\ [][NextSession]_vars

(* ------------------------------- claims ------------------------------- *)

\* the entry of the trace for a node that returned
Returned(i, node) == trace[i].node = node /\ ~trace[i].raised
\* a graph step: a node of the running invocation is about to run
GraphStep == pc \in Nodes /\ trace' # trace
\* the step is a check_query that returned its response
CheckReturned == pc = "check_query" /\ ~Last(trace').raised

\* C1: END is reached exactly when the latest generate_query response carries no
\* tool call: after generate_query returns, the next node is check_query if the
\* response has a tool call and END otherwise, and END follows no other node.
C1_EndIffNoToolCall ==
    /\ pc = "END" => /\ trace # <<>>
                     /\ Returned(Len(trace), "generate_query")
                     /\ tool_calls_of(Last(trace).returned[1]) = <<>>
    /\ (trace # <<>> /\ Returned(Len(trace), "generate_query") /\ pc \in Nodes \cup {"END"})
          => pc = (IF tool_calls_of(Last(trace).returned[1]) # <<>>
                   THEN "check_query" ELSE "END")

\* C1 witness: END reached after a full query cycle
C1_Witness == pc = "END" /\ Count("run_query") >= 1

\* C2 as stated: no graph step shortens the state or loses a message that was in it.
C2_NoMessageLost ==
    [][GraphStep =>
          /\ Len(messages') >= Len(messages)
          /\ \A i \in 1..Len(messages) : \E j \in 1..Len(messages') :
                messages'[j] = messages[i]]_vars

\* C2 amended: no graph step shortens the state, and every message keeps its
\* position and stays in the state, except that check_query puts its response in
\* the place of the last message (the generate_query response) and adds nothing.
C2_GrowsExceptReplacement ==
    [][GraphStep =>
          /\ Len(messages') >= Len(messages)
          /\ \A i \in 1..Len(messages) :
                IF CheckReturned /\ i = Len(messages)
                THEN messages'[i] = Last(trace').returned[1] /\ messages'[i] # messages[i]
                ELSE messages'[i] = messages[i]
          /\ CheckReturned => Len(messages') = Len(messages)]_vars

\* C2 witness: check_query has replaced and run_query has appended
C2_Witness ==
    /\ pc = "generate_query"
    /\ Count("run_query") >= 1
    /\ messages[Len(messages) - Len(Last(trace).returned)]
          = trace[Len(trace) - 1].returned[1]

\* C3 as stated: no graph step changes the type, content or tool calls of a
\* message already in the state.
C3_NoPriorMessageChanged ==
    [][GraphStep =>
          \A i \in 1..Len(messages) :
             /\ i <= Len(messages')
             /\ messages'[i].type = messages[i].type
             /\ messages'[i].content = messages[i].content
             /\ tool_calls_of(messages'[i]) = tool_calls_of(messages[i])]_vars

\* C3 amended: only check_query changes a message already in the state, and only
\* the last one: the entry that held the generate_query response keeps its
\* identifier and takes the content and tool calls of check_query's response.
C3_OnlyCheckQueryOverwritesLast ==
    [][GraphStep =>
          /\ \A i \in 1..Len(messages) :
                (\/ i > Len(messages')
                 \/ messages'[i].type # messages[i].type
                 \/ messages'[i].content # messages[i].content
                 \/ tool_calls_of(messages'[i]) # tool_calls_of(messages[i]))
                   => (CheckReturned /\ i = Len(messages))
          /\ CheckReturned =>
                /\ Last(messages').id = Last(messages).id
                /\ tool_calls_of(Last(messages')) = Last(trace').returned[1].tool_calls
                /\ tool_calls_of(Last(messages')) # tool_calls_of(Last(messages))
                /\ \A j \in 1..Len(messages') : messages'[j] # Last(messages)]_vars

\* C3 witness: check_query has put a corrected query in the place of the query
\* that generate_query proposed
C3_Witness ==
    /\ pc = "run_query"
    /\ trace[Len(trace) - 1].returned[1].tool_calls[1].args
          # Last(messages).tool_calls[1].args
    /\ trace[Len(trace) - 1].returned[1].id = Last(messages).id

\* C4 as stated: the message check_query adds carries exactly one tool call.
C4_ExactlyOneToolCall ==
    \A i \in 1..Len(trace) :
        Returned(i, "check_query") =>
            /\ Len(trace[i].returned) = 1
            /\ Len(tool_calls_of(trace[i].returned[1])) = 1

\* C4 amended: the message check_query adds carries at least one tool call, every
\* one of them for the SQL-execution tool, and is never a bare content message.
C4_AtLeastOneToolCall ==
    \A i \in 1..Len(trace) :
        Returned(i, "check_query") =>
            /\ Len(trace[i].returned) = 1
            /\ Len(tool_calls_of(trace[i].returned[1])) >= 1
            /\ \A k \in 1..Len(tool_calls_of(trace[i].returned[1])) :
                  trace[i].returned[1].tool_calls[k].name = "sql_db_query"

\* C4 witness: check_query returned a response with two tool calls
C4_Witness ==
    /\ trace # <<>>
    /\ Returned(Len(trace), "check_query")
    /\ Len(tool_calls_of(Last(trace).returned[1])) = 2

\* the SQL statements run by the node at step i
ExecutedAt(i) == SelectSeq(executed, LAMBDA e : e.step = i)
\* the calls of a message that carry a query string
QueryCalls(m) == SelectSeq(tool_calls_of(m), LAMBDA c : HasKey(c.args, "query"))

\* C5: every run_query step comes right after a check_query step that comes right
\* after a generate_query step; SQL reaches the database only at run_query, and
\* the statements run there are the ones check_query's response carries.
C5_CheckedBeforeRun ==
    /\ \A i \in 1..Len(trace) :
          trace[i].node = "run_query" =>
             /\ i >= 3
             /\ Returned(i - 1, "check_query")
             /\ Returned(i - 2, "generate_query")
             /\ [k \in 1..Len(ExecutedAt(i)) |-> ExecutedAt(i)[k].query]
                   = [k \in 1..Len(QueryCalls(trace[i - 1].returned[1])) |->
                         Get(QueryCalls(trace[i - 1].returned[1])[k].args, "query")]
    /\ \A k \in 1..Len(executed) : trace[executed[k].step].node = "run_query"

\* C5 witness: a statement was executed that check_query wrote and
\* generate_query had not proposed
C5_Witness ==
    /\ executed # <<>>
    /\ trace[Len(trace) - 1].node = "check_query"
    /\ executed[1].query # Get(trace[Len(trace) - 2].returned[1].tool_calls[1].args, "query")

\* C6 as stated: run_query executes exactly one request and appends exactly one
\* tool result, correlated to the tool call of the check_query message.
C6_ExactlyOneRequest ==
    \A i \in 1..Len(trace) :
        Returned(i, "run_query") =>
            /\ Len(ExecutedAt(i)) = 1
            /\ Len(trace[i].returned) = 1
            /\ trace[i].returned[1].tool_call_id = trace[i - 1].returned[1].tool_calls[1].id

\* C6 amended: run_query answers every tool call of the check_query message: it
\* appends one tool result per request, in the requests' order, each correlated
\* to its request, and runs once each request that carries a query string.
C6_OneResultPerRequest ==
    \A i \in 1..Len(trace) :
        Returned(i, "run_query") =>
            LET calls == tool_calls_of(trace[i - 1].returned[1])
            IN  /\ Len(trace[i].returned) = Len(calls)
                /\ \A k \in 1..Len(calls) :
                      /\ trace[i].returned[k].type = "ToolMessage"
                      /\ trace[i].returned[k].tool_call_id = calls[k].id
                /\ [k \in 1..Len(ExecutedAt(i)) |-> ExecutedAt(i)[k].id]
                      = [k \in 1..Len(QueryCalls(trace[i - 1].returned[1])) |->
                            QueryCalls(trace[i - 1].returned[1])[k].id]
                /\ i = Len(trace) =>
                      SubSeq(messages, Len(messages) - Len(calls) + 1, Len(messages))
                         = trace[i].returned

\* C6 witness: run_query answered a check_query message carrying two requests
C6_Witness ==
    /\ trace # <<>>
    /\ Returned(Len(trace), "run_query")
    /\ Len(Last(trace).returned) = 2
    /\ Len(ExecutedAt(Len(trace))) = 2

\* C7: a failing SQL statement becomes the content of a tool-result message in the
\* conversation state, run_query returns normally and hands over to
\* generate_query, and the failed request is not run a second time.
C7_SqlErrorIsToolResult ==
    /\ \A k \in 1..Len(executed) :
          executed[k].result = SqlErrorText =>
             /\ Returned(executed[k].step, "run_query")
             /\ \E j \in 1..Len(messages) :
                   /\ messages[j].type = "ToolMessage"
                   /\ messages[j].tool_call_id = executed[k].id
                   /\ messages[j].content = SqlErrorText
             /\ \A l \in 1..Len(executed) : executed[l].id = executed[k].id => l = k
    /\ (trace # <<>> /\ Last(trace).node = "run_query") =>
          (~Last(trace).raised /\ pc = "generate_query")

\* C7 witness: generate_query ran, and answered, after a statement had failed
C7_Witness ==
    /\ pc = "END"
    /\ \E k \in 1..Len(executed) : executed[k].result = SqlErrorText

ModelNodes == {"call_get_schema", "generate_query", "check_query"}

\* C8: a model call that fails in call_get_schema, generate_query or check_query
\* ends the invocation there: the failed node is the last node started, END is
\* not reached, and the caller of stream receives the failure.
C8_ModelFailureEndsInvocation ==
    /\ \A i \in 1..Len(trace) :
          trace[i].raised => (i = Len(trace) /\ pc \in {"error", "idle"})
    /\ (pc = "error" /\ error = "model") =>
          (trace # <<>> /\ Last(trace).raised /\ Last(trace).node \in ModelNodes)
    /\ (pc = "idle" /\ trace # <<>> /\ Last(trace).raised) =>
          Last(session_messages) =
             [role |-> "assistant", content |-> ErrorText(error), steps |-> <<>>]

\* C8 witness: the model call of check_query failed and the handler caught it
C8_Witness ==
    /\ pc = "idle"
    /\ trace # <<>>
    /\ Last(trace).raised
    /\ Last(trace).node = "check_query"
    /\ error = "model"

AllGenerateCallTools ==
    \A i \in 1..Len(trace) :
        Returned(i, "generate_query") => tool_calls_of(trace[i].returned[1]) # <<>>
NoNodeRaised == \A i \in 1..Len(trace) : ~trace[i].raised

\* C10 as stated: while every generate_query response carries a tool call and no
\* node fails, the invocation never stops.
C10_NeverStopsOnItsOwn ==
    (trace # <<>> /\ AllGenerateCallTools /\ NoNodeRaised) => pc \in Nodes

\* C10 amended: the graph has no iteration bound of its own and END is not
\* reached while every generate_query response carries a tool call, but the
\* runtime's recursion limit stops the invocation: it raises after
\* RecursionLimit supersteps, so run_query runs at most (RecursionLimit - 3) / 3
\* times.
C10_StoppedByRecursionLimit ==
    /\ Len(trace) <= RecursionLimit
    /\ Count("run_query") <= (RecursionLimit - 3) \div 3
    /\ (AllGenerateCallTools /\ NoNodeRaised) => pc # "END"
    /\ error = "GraphRecursionError" => (Len(trace) = RecursionLimit /\ NoNodeRaised)

\* C10 witness: every response asked for a query, and the recursion limit ended
\* the invocation after the last possible run_query
C10_Witness ==
    /\ pc = "idle"
    /\ error = "GraphRecursionError"
    /\ AllGenerateCallTools
    /\ Count("run_query") = (RecursionLimit - 3) \div 3

\* the nodes of the running invocation that returned, in order
ReturnedCount == Cardinality({i \in 1..Len(trace) : ~trace[i].raised})
\* the classification parse_step_info owes to a message
Classified(m, rec) ==
    IF tool_calls_of(m) # <<>>
    THEN /\ DOMAIN rec = {"step", "tool_call"}
         /\ rec.tool_call = [name |-> m.tool_calls[1].name, args |-> m.tool_calls[1].args]
    ELSE IF m.content # ""
    THEN DOMAIN rec = {"step", "content"} /\ rec.content = m.content
    ELSE DOMAIN rec = {"step", "type"} /\ rec.type = m.type

\* C11 as stated: the trace of a question holds exactly one step record per node
\* that ran.
C11_OneRecordPerNode == Len(steps) = ReturnedCount

\* C11 amended: the trace holds one record for the input state (the question)
\* followed by one record per node that returned, numbered 1, 2, ..., n in
\* order; each record classifies the last message of its snapshot as a tool call
\* (first call's name and args), else as content, else by its type.
C11_RecordPerSnapshot ==
    /\ Len(steps) = (IF messages = <<>> THEN 0 ELSE 1 + ReturnedCount)
    /\ Len(app_messages) = Len(steps)
    /\ \A k \in 1..Len(steps) :
          /\ steps[k].step = k
          /\ Classified(app_messages[k], steps[k])
          /\ k = 1 => app_messages[k].type = "HumanMessage"
          /\ k > 1 => app_messages[k] = Last(trace[k - 1].returned)

\* C11 witness: a finished invocation whose trace holds a tool-call record, a
\* content record and a type record
C11_Witness ==
    /\ pc = "END"
    /\ Count("run_query") >= 1
    /\ Len(steps) = Len(trace) + 1
    /\ "type" \in DOMAIN Last(steps)
    /\ "content" \in DOMAIN steps[1]
    /\ \E k \in 1..Len(steps) : "tool_call" \in DOMAIN steps[k]

(* ---------------------------------- C12 ---------------------------------- *)

\* the runs of build_agent_for_db_path that returned an agent
Successes(path) == {i \in 1..Len(builds) : builds[i].path = path /\ builds[i].ok}

\* C12 as stated: build_agent_for_db_path runs at most once per distinct
\* database path
C12_BuildRunsOncePerPath ==
    \A i, j \in 1..Len(builds) : builds[i].path = builds[j].path => i = j

\* C12: build_agent_for_db_path returns at most once per distinct database
\* path: only a run that raised is repeated for its path, the cache holds one
\* agent per path, the one that run returned, and the agent of the session is
\* the cached agent of its db_path
C12_BuiltOncePerPath ==
    /\ \A i, j \in 1..Len(builds) :
          (i < j /\ builds[i].path = builds[j].path) => ~builds[i].ok
    /\ \A c \in cache :
          /\ Successes(c.path) # {}
          /\ \A i \in Successes(c.path) : c.agent = build_agent_for_db_path(c.path, i)
    /\ \A i \in 1..Len(builds) :
          builds[i].ok => \E c \in cache : c.path = builds[i].path
    /\ agent # None => [path |-> db_path, agent |-> agent] \in cache

\* a session that went back to the bundled database after an upload holds the
\* agent built for it before, and a build that raised was run again
C12_Witness ==
    /\ tmpfiles > 0
    /\ db_path = default_path
    /\ agent # None
    /\ Cardinality(Successes(default_path)) = 1
    /\ \E i, j \in 1..Len(builds) :
          i < j /\ builds[i].path = builds[j].path /\ ~builds[i].ok /\ builds[j].ok

(* ---------------------------------- C13 ---------------------------------- *)

SetupNodes == <<"list_tables", "call_get_schema", "get_schema">>

\* C13: an invocation starts at list_tables; the first three nodes it runs are
\* list_tables, call_get_schema and get_schema, in that order; generate_query
\* first runs as the fourth node, and from then on only generate_query,
\* check_query and run_query run.
C13_SetupOnceInOrder ==
    /\ (pc \in Nodes /\ trace = <<>>) => pc = "list_tables"
    /\ \A i \in 1..Len(trace) :
          IF i <= 3
          THEN trace[i].node = SetupNodes[i]
          ELSE trace[i].node \in {"generate_query", "check_query", "run_query"}
    /\ Len(trace) >= 4 => /\ trace[4].node = "generate_query"
                          /\ \A i \in 1..3 : Returned(i, SetupNodes[i])
    /\ \A k \in 1..3 : Count(SetupNodes[k]) <= 1

\* C13 witness: the query loop came back to generate_query a second time
C13_Witness ==
    /\ Count("generate_query") >= 2
    /\ Count("run_query") >= 1
    /\ Count("list_tables") = 1
    /\ Count("call_get_schema") = 1
    /\ Count("get_schema") = 1

(* ---------------------------------- C14 ---------------------------------- *)

\* C14: when check_query has returned, the last message of the state is its
\* response, under the identifier of the generate_query message it reviewed;
\* and no two messages of the state ever share an identifier.
C14_ReplacedUnderSameId ==
    /\ \A i, j \in 1..Len(messages) : messages[i].id = messages[j].id => i = j
    /\ \A i \in 1..Len(messages) : messages[i].id # None
    /\ (trace # <<>> /\ Returned(Len(trace), "check_query")) =>
          /\ Last(messages) = Last(trace).returned[1]
          /\ Last(messages).id = trace[Len(trace) - 1].returned[1].id
          /\ Returned(Len(trace) - 1, "generate_query")

\* C14 witness: check_query has returned a response that differs from the
\* message it reviewed and stands in its place
C14_Witness ==
    /\ trace # <<>>
    /\ Returned(Len(trace), "check_query")
    /\ Last(messages).tool_calls # <<>>
    /\ Last(messages) # trace[Len(trace) - 1].returned[1]
    /\ Last(messages).id = trace[Len(trace) - 1].returned[1].id

(* ---------------------------------- C15 ---------------------------------- *)

\* C15: whatever query string a tool call of check_query's response carries,
\* read-only or data-modifying, is the string run_query hands to the database,
\* once, under that call's identifier; nothing else is handed to it.
C15_AnyStatementExecuted ==
    \A i \in 1..Len(trace) :
        Returned(i, "run_query") =>
            LET calls == tool_calls_of(trace[i - 1].returned[1])
            IN  /\ \A k \in 1..Len(calls) :
                      \A q \in Queries :
                          <<"query", q>> \in calls[k].args =>
                              Cardinality({e \in 1..Len(executed) :
                                              /\ executed[e].step = i
                                              /\ executed[e].id = calls[k].id
                                              /\ executed[e].query = q}) = 1
                /\ \A e \in 1..Len(executed) :
                      executed[e].step = i =>
                          \E k \in 1..Len(calls) :
                              /\ calls[k].id = executed[e].id
                              /\ <<"query", executed[e].query>> \in calls[k].args

\* C15 witness: a data-modifying statement that check_query wrote was run
C15_Witness ==
    /\ trace # <<>>
    /\ Returned(Len(trace), "run_query")
    /\ \E e \in 1..Len(executed) :
          /\ executed[e].query = DmlQuery
          /\ executed[e].result = RowsText

(* ---------------------------------- C16 ---------------------------------- *)

\* C16: whenever check_query is about to run, the last message of the state
\* carries a tool call and the first one has a query among its arguments, and
\* check_query never raises on reading it.
C16_QueryReadNeverFails ==
    /\ pc = "check_query" =>
          /\ tool_calls_of(Last(messages)) # <<>>
          /\ HasKey(Last(messages).tool_calls[1].args, "query")
    /\ \A i \in 1..Len(trace) :
          (trace[i].node = "check_query" /\ trace[i].raised) => error # "KeyError"

(* ---------------------------------- C17 ---------------------------------- *)

UserEntries == {k \in 1..Len(session_messages) : session_messages[k].role = "user"}

\* C17 as stated: once the handling of a question is complete the history holds
\* two entries per question asked, user and assistant entries alternating.
C17_TwoEntriesPerQuestion ==
    pc = "idle" =>
        /\ Len(session_messages) = 2 * asked
        /\ \A k \in 1..Len(session_messages) :
              session_messages[k].role = (IF k % 2 = 1 THEN "user" ELSE "assistant")

\* C17 amended: every question adds its user entry; when its handling is
\* complete one assistant entry follows it if the agent failed or the final
\* message has non-empty content, and none if the final content is empty. An
\* assistant entry always comes right after a user entry; two user entries may
\* be adjacent.
C17_AssistantEntryUnlessEmpty ==
    /\ Cardinality(UserEntries) = asked
    /\ \A k \in 1..Len(session_messages) :
          session_messages[k].role = "assistant" =>
              (k > 1 /\ session_messages[k - 1].role = "user")
    /\ (pc # "idle") => Last(session_messages).role = "user"
    /\ (pc = "idle" /\ asked > 0) =>
          IF error # ""
          THEN Last(session_messages) =
                  [role |-> "assistant", content |-> ErrorText(error), steps |-> <<>>]
          ELSE IF Last(messages).content # ""
          THEN Last(session_messages) =
                  [role |-> "assistant", content |-> Last(messages).content,
                   steps |-> steps]
          ELSE Last(session_messages).role = "user"

\* C17 witness: two questions were handled, the first ended with an empty
\* final message and left two user entries next to each other
C17_Witness ==
    /\ pc = "idle"
    /\ asked = 2
    /\ Len(session_messages) = 3
    /\ session_messages[1].role = "user"
    /\ session_messages[2].role = "user"
    /\ session_messages[3].role = "assistant"

(* ---------------------------------- C18 ---------------------------------- *)

\* the history after a step starts with the history before it
HistoryKept ==
    /\ Len(session_messages') >= Len(session_messages)
    /\ SubSeq(session_messages', 1, Len(session_messages)) = session_messages

\* C18: within a session, a script run that finds the same uploaded file
\* selected leaves db_path and agent as they were, and the history loses its
\* entries only when another file is uploaded or Clear Chat is pressed.
C18_SameUploadKeepsSession ==
    [][~NewSession =>
          /\ (uploaded # None /\ uploaded' = uploaded) =>
                (db_path' = db_path /\ agent' = agent)
          /\ ~HistoryKept =>
                (ClearChat \/ (uploaded' # uploaded /\ uploaded' # None))]_vars

(* ---------------------------------- C19 ---------------------------------- *)

\* the question being handled: the content of the last user entry
CurrentQuestion == session_messages[CHOOSE k \in UserEntries :
                                       \A l \in UserEntries : l <= k].content

RECURSIVE Replay(_)
\* the conversation state computed from the current question and the first n
\* node results alone
Replay(n) ==
    IF n = 0
    THEN <<HumanMessage(<<"uuid", 0>>, CurrentQuestion)>>
    ELSE merge_by_id(Replay(n - 1), trace[n].returned)

\* C19: an invocation begins from a state holding one message, the current
\* question; the state is at every step the one computed from that question and
\* the node results of this invocation alone, so it holds no message of an
\* earlier question or answer and is the same for the same question and results.
C19_StateFromQuestionAlone ==
    asked > 0 =>
        /\ (pc = "list_tables" /\ trace = <<>>) =>
              messages = <<HumanMessage(<<"uuid", 0>>, CurrentQuestion)>>
        /\ messages = Replay(Len(trace))
        /\ \A i \in 1..Len(messages) : messages[i].type = "HumanMessage" => i = 1
        /\ \A i \in 1..Len(messages) :
              i > 1 => \E n \in 1..Len(trace) : \E j \in 1..Len(trace[n].returned) :
                          messages[i] = trace[n].returned[j]

\* C19 witness: the second question of a session is the first one again, asked
\* after an answer entered the history, and its invocation has run nodes
C19_Witness ==
    /\ asked = 2
    /\ Len(session_messages) = 3
    /\ session_messages[2].role = "assistant"
    /\ session_messages[3].content = session_messages[1].content
    /\ pc = "generate_query"
    /\ Len(trace) = 3


====
